---- MODULE Spec2Model ----
(***************************************************************************)
(* Model of the ecommerce migration helper: the schema classifier          *)
(* (schema_id.js), the GA4 hit parser (ga4.js), the UA / measurement       *)
(* protocol hit parser and the gtag command builder.                       *)
(*                                                                         *)
(* JavaScript values are modelled by what the code reads of them.  Every   *)
(* test the classifier makes on a key is a truthiness test, so an object   *)
(* is the set of its keys that hold a truthy value ("present" keys); a key *)
(* that is missing or holds 0, "", null, false is not in the set.  The one *)
(* value whose properties are read, gtag's items, keeps its kind.          *)
(***************************************************************************)
EXTENDS Integers, Sequences, FiniteSets, TLC

\* pc             which call is in progress and where it stands:
\*                "idle" (none), "loop" (identifySchema's items loop),
\*                "returned" / "thrown" (identifySchema ended),
\*                "ga4.parsed" / "ua.parsed" (a hit parser returned),
\*                "items" (buildGa4GtagCommand's products loop), "built"
\* api, paramsObject            identifySchema's arguments
\* i, currentSchema             its loop variables (i also of the command builder)
\* schema                       what identifySchema returned
\* url                          the hit handed to a parser, as its &-tokens
\* sent                         the product the GA4 tag encoded into that hit
\* parsedData                   the record the parser returned
\* parsedHitData                buildGa4GtagCommand's argument
\* eventParamsString, itemsString, command   its locals and its result
\* lastIndex                    the lastIndex property of every RegExp object
\*                              the two parser modules hold
\* calls, call, first           history of the calls made on the parser
\*                              modules: their number, the latest call and
\*                              what each (function, URL) returned first
\* apiSelected, gtagText, dlText   the page's API selector and text boxes
\* lastParamString, paramsPromise  the page script's module variables
\* promises                     the promises getParams created, by number
\* jobs                         the promise reactions waiting to run
\* dataLayer                    what was pushed to window.dataLayer
\* log                          history of the clicks on Submit: what each
\*                              call of getParams returned
VARIABLES pc, api, paramsObject, i, currentSchema, schema,
          url, sent, parsedData,
          parsedHitData, eventParamsString, itemsString, command,
          lastIndex, calls, call, first,
          apiSelected, gtagText, dlText, lastParamString, paramsPromise,
          promises, jobs, dataLayer, log

vars == <<pc, api, paramsObject, i, currentSchema, schema,
          url, sent, parsedData,
          parsedHitData, eventParamsString, itemsString, command,
          lastIndex, calls, call, first,
          apiSelected, gtagText, dlText, lastParamString, paramsPromise,
          promises, jobs, dataLayer, log>>

schemaVars == <<api, paramsObject, currentSchema, schema>>
decodeVars == <<url, sent, parsedData>>
commandVars == <<parsedHitData, eventParamsString, itemsString, command>>
sessionVars == <<lastIndex, calls, call, first>>
pageVars == <<apiSelected, gtagText, dlText, lastParamString, paramsPromise,
              promises, jobs, dataLayer, log>>

(***************************************************************************)
(* Bounds of the model.                                                    *)
(***************************************************************************)
\* longest items list handed to the classifier
MaxItems == 3
\* most keys (at any depth) of an ecommerce object handed to the classifier
MaxKeys == 4
\* most fields of a product encoded into a GA4 hit
MaxFields == 2
\* longest field value of such a product
MaxValLen == 2
\* most &-tokens of a UA hit
MaxTokens == 3
\* highest product index handed to the command builder
MaxIndex == 3

(***************************************************************************)
(* Generic helpers.                                                        *)
(***************************************************************************)
SeqsUpTo(S, n) == UNION {[1..k -> S] : k \in 0..n}

\* the subsets of S with at most k elements
RECURSIVE KSubsets(_, _)
KSubsets(S, k) ==
    IF k <= 0 THEN {{}}
    ELSE LET smaller == KSubsets(S, k - 1)
         IN  smaller \cup {s \cup {x} : s \in smaller, x \in S}

\* the value JavaScript gives a variable that was never assigned
undefined == "undefined"

(***************************************************************************)
(* schema_id.js                                                            *)
(***************************************************************************)
KnownSchema ==
    [UNKNOWN |-> "unknown", UNKNOWN_GTAG |-> "gtag-unknown",
     GTM_UA |-> "ua-gtm", GTM_LEGACY_GA4 |-> "ga4-gtm",
     GTAG_UA |-> "ua-gtag", UNIFIED |-> "ga4-gtag"]

Api == [DATA_LAYER |-> "dataLayer", GTAG |-> "gtag"]

Labels == {KnownSchema[k] : k \in DOMAIN KnownSchema}

\* ---- inputs of the gtag branch ----
UnifiedKeys == {"item_id", "item_name", "promotion_id", "promotion_name",
                "creative_name"}
LegacyKeys == {"id", "name"}

\* An items entry is the set of its truthy keys.
ItemEntries ==
    {{}} \cup {{k} : k \in UnifiedKeys \cup LegacyKeys}
         \cup {{"item_id", "id"}, {"creative_name", "name"}}

\* kinds of value the items key can hold:
\*   undefined (key missing), null, zero (a falsy primitive: 0, "", false),
\*   string (non-empty string: has length, no push), object (truthy, neither
\*   length nor push), array.
NonListItems ==
    {[kind |-> k, elems |-> <<>>] :
        k \in {"undefined", "null", "zero", "string", "object", "array"}}
ListItems ==
    {[kind |-> "array", elems |-> s] :
        s \in SeqsUpTo(ItemEntries, MaxItems) \ {<<>>}}

\* Beside a non-empty list the other three markers are never read (the ||
\* of lines 46-49 stops at items), so lists come with none or all of them.
GtagParams ==
    [items : NonListItems, transaction_id : BOOLEAN, value : BOOLEAN,
     currency : BOOLEAN]
    \cup {[items |-> v, transaction_id |-> b, value |-> b, currency |-> b] :
            v \in ListItems, b \in BOOLEAN}

\* JavaScript truthiness of an items value
Truthy(v) == v.kind \in {"string", "object", "array"}
\* items.length is truthy
HasLength(v) == v.kind = "string" \/ (v.kind = "array" /\ Len(v.elems) > 0)
\* items.push is truthy
HasPush(v) == v.kind = "array"
\* reading a property of the value throws a TypeError
ThrowsOnRead(v) == v.kind \in {"undefined", "null"}

\* ---- inputs of the dataLayer branch ----
ActionNames == <<"detail", "click", "add", "remove", "purchase", "refund",
                 "checkout", "checkoutStep", "promoView", "promoClick">>
ActionNameSet == {ActionNames[n] : n \in DOMAIN ActionNames}
EcommerceKeys == {"items", "transaction_id", "value", "impressions"}
ActionKeys == {"actionField", "products", "promotions", "items"}

\* An ecommerce object: keys are its truthy top-level keys, marks the truthy
\* keys of its action sub-objects, as <<action, key>>; MaxKeys keys in all.
EcommerceObject(keys, marks) == [kind |-> "object", keys |-> keys, marks |-> marks]
NoEcommerce == [kind |-> "undefined", keys |-> {}, marks |-> {}]
EcommerceKeySets == KSubsets(EcommerceKeys \cup ActionNameSet, MaxKeys)
ActionMarkSets(keys) ==
    KSubsets((keys \cap ActionNameSet) \X ActionKeys, MaxKeys - Cardinality(keys))

\* lines 44-60: what the gtag branch does before its loop
GtagGuardNoPush(p) ==
    IF ~(Truthy(p.items) \/ p.transaction_id \/ p.value \/ p.currency)
    THEN [pc |-> "returned", schema |-> KnownSchema.UNKNOWN]
    ELSE IF ThrowsOnRead(p.items)
    THEN [pc |-> "thrown", schema |-> "TypeError"]
    ELSE IF ~HasLength(p.items)
    THEN [pc |-> "returned", schema |-> KnownSchema.UNKNOWN_GTAG]
    ELSE [pc |-> "loop", schema |-> undefined]

GtagGuard(p) ==
    IF ~(Truthy(p.items) \/ p.transaction_id \/ p.value \/ p.currency)
    THEN [pc |-> "returned", schema |-> KnownSchema.UNKNOWN]
    ELSE IF ThrowsOnRead(p.items)
    THEN [pc |-> "thrown", schema |-> "TypeError"]
    ELSE IF ~HasLength(p.items) \/ ~HasPush(p.items)
    THEN [pc |-> "returned", schema |-> KnownSchema.UNKNOWN_GTAG]
    ELSE [pc |-> "loop", schema |-> undefined]

\* lines 64-76: the classification of one entry; the legacy test comes second
\* and overwrites the unified one
ThisItemSchemaUnifiedFirst(item) ==
    IF item \cap UnifiedKeys # {} THEN KnownSchema.UNIFIED
    ELSE IF item \cap LegacyKeys # {} THEN KnownSchema.GTAG_UA
    ELSE undefined

ThisItemSchema(item) ==
    IF item \cap LegacyKeys # {} THEN KnownSchema.GTAG_UA
    ELSE IF item \cap UnifiedKeys # {} THEN KnownSchema.UNIFIED
    ELSE undefined

\* lines 77-82: one step of the fold
FoldSchemaLastWins(current, thisItemSchema) == thisItemSchema

FoldSchema(current, thisItemSchema) ==
    IF current = undefined \/ current = thisItemSchema
    THEN thisItemSchema
    ELSE KnownSchema.UNKNOWN_GTAG

\* lines 101-111: the first truthy action sub-object
ActionObjectLast(e) ==
    LET present == {n \in DOMAIN ActionNames : ActionNames[n] \in e.keys}
    IN  IF present = {} THEN undefined
        ELSE ActionNames[CHOOSE n \in present : \A m \in present : m <= n]

ActionObject(e) ==
    IF "detail" \in e.keys THEN "detail"
    ELSE IF "click" \in e.keys THEN "click"
    ELSE IF "add" \in e.keys THEN "add"
    ELSE IF "remove" \in e.keys THEN "remove"
    ELSE IF "purchase" \in e.keys THEN "purchase"
    ELSE IF "refund" \in e.keys THEN "refund"
    ELSE IF "checkout" \in e.keys THEN "checkout"
    ELSE IF "checkoutStep" \in e.keys THEN "checkoutStep"
    ELSE IF "promoView" \in e.keys THEN "promoView"
    ELSE IF "promoClick" \in e.keys THEN "promoClick"
    ELSE undefined

\* actionObject[key] is truthy
ActionHas(e, a, key) == <<a, key>> \in e.marks

\* lines 101-135: the action object and the impressions fallback
ActionSchema(e) ==
    LET actionObject == ActionObject(e)
    IN  IF actionObject # undefined
           /\ (ActionHas(e, actionObject, "actionField")
               \/ ActionHas(e, actionObject, "products")
               \/ ActionHas(e, actionObject, "promotions"))
        THEN KnownSchema.GTM_UA
        ELSE IF actionObject # undefined /\ ActionHas(e, actionObject, "items")
        THEN KnownSchema.GTM_LEGACY_GA4
        ELSE IF "impressions" \in e.keys
        THEN KnownSchema.GTM_UA
        ELSE KnownSchema.UNKNOWN

\* lines 86-135: the dataLayer branch
DataLayerSchemaActionFirst(p) ==
    LET e == p.ecommerce
    IN  IF e.kind = "undefined" THEN KnownSchema.UNKNOWN
        ELSE IF ActionSchema(e) # KnownSchema.UNKNOWN THEN ActionSchema(e)
        ELSE IF "items" \in e.keys \/ "transaction_id" \in e.keys
                \/ "value" \in e.keys
        THEN KnownSchema.GTM_LEGACY_GA4
        ELSE KnownSchema.UNKNOWN

DataLayerSchema(p) ==
    LET e == p.ecommerce
    IN  IF e.kind = "undefined" THEN KnownSchema.UNKNOWN
        ELSE IF "items" \in e.keys \/ "transaction_id" \in e.keys
                \/ "value" \in e.keys
        THEN KnownSchema.GTM_LEGACY_GA4
        ELSE ActionSchema(e)

\* identifySchema(Api.GTAG, p): lines 43-60
IdentifyGtag ==
    /\ pc = "idle"
    /\ \E p \in GtagParams :
          LET guard == GtagGuard(p)
          IN  /\ api' = Api.GTAG
              /\ paramsObject' = p
              /\ pc' = guard.pc
              /\ schema' = guard.schema
    /\ i' = 0
    /\ currentSchema' = undefined
    /\ UNCHANGED <<sessionVars, pageVars, decodeVars, commandVars>>

\* one iteration of the loop of lines 63-83
IdentifyLoop ==
    /\ pc = "loop"
    /\ i < Len(paramsObject.items.elems)
    /\ currentSchema' =
          FoldSchema(currentSchema, ThisItemSchema(paramsObject.items.elems[i + 1]))
    /\ i' = i + 1
    /\ UNCHANGED <<sessionVars, pageVars, pc, api, paramsObject, schema,
                   decodeVars, commandVars>>

\* line 84
IdentifyReturn ==
    /\ pc = "loop"
    /\ i >= Len(paramsObject.items.elems)
    /\ pc' = "returned"
    /\ schema' = currentSchema
    /\ UNCHANGED <<sessionVars, pageVars, api, paramsObject, i, currentSchema,
                   decodeVars, commandVars>>

\* identifySchema(Api.DATA_LAYER, p): lines 86-135
IdentifyDataLayerWith(p) ==
    /\ api' = Api.DATA_LAYER
    /\ paramsObject' = p
    /\ schema' = DataLayerSchema(p)
    /\ pc' = "returned"
    /\ UNCHANGED <<sessionVars, pageVars, i, currentSchema, decodeVars, commandVars>>

IdentifyDataLayer ==
    /\ pc = "idle"
    /\ \/ IdentifyDataLayerWith([ecommerce |-> NoEcommerce])
       \/ \E keys \in EcommerceKeySets :
             \E marks \in ActionMarkSets(keys) :
                IdentifyDataLayerWith([ecommerce |-> EcommerceObject(keys, marks)])

NoParams == [none |-> TRUE]

\* line 50 of the page script: paramsPromise before its first assignment
\* (undefined); promises are numbered from 1 in the order they are created
NoPromise == 0

\* The RegExp objects the parser modules create when they load (ga4.js lines
\* 23-41, the UA parser's lines 24-65), and the flags of their literals.
Regexes ==
    {"GA4_URL_REGEX", "GA4_PRODUCT_REGEX", "GA4_PARAM_REGEX",
     "GA4_EVENT_NAME_REGEX", "UA_LEGACY_REGEX", "UA_GA4_REGEX",
     "UA_PRODUCT_REGEX", "UA_LIST_NAME_REGEX", "UA_IMPRESSION_REGEX",
     "UA_PROMO_REGEX", "UA_PARAMS_REGEX"}
GlobalFlagAll(regex) == TRUE

GlobalFlag(regex) ==
    regex \notin {"GA4_URL_REGEX", "UA_LEGACY_REGEX", "UA_GA4_REGEX"}
\* a RegExp literal starts with lastIndex 0
FreshLastIndex == [regex \in Regexes |-> 0]

Init ==
    /\ pc = "idle"
    /\ api = undefined
    /\ paramsObject = NoParams
    /\ i = 0
    /\ currentSchema = undefined
    /\ schema = undefined
    /\ url = <<>>
    /\ sent = <<>>
    /\ parsedData = NoParams
    /\ parsedHitData = NoParams
    /\ eventParamsString = <<>>
    /\ itemsString = <<>>
    /\ command = NoParams
    /\ lastIndex = FreshLastIndex
    /\ calls = 0
    /\ call = NoParams
    /\ first = <<>>
    /\ apiSelected = Api.GTAG
    /\ gtagText = ""
    /\ dlText = ""
    /\ lastParamString = ""
    /\ paramsPromise = NoPromise
    /\ promises = <<>>
    /\ jobs = <<>>
    /\ dataLayer = <<>>
    /\ log = <<>>

NextSchema == IdentifyGtag \/ IdentifyLoop \/ IdentifyReturn \/ IdentifyDataLayer

SpecSchema == Init /\ [][NextSchema]_vars

(***************************************************************************)
(* JavaScript objects and sparse arrays of the parsers: a function from    *)
(* the keys (indices) that are set to their values.  Strings the code      *)
(* takes apart are sequences of one-character strings.                     *)
(***************************************************************************)
EmptyObject == <<>>
\* object[key] = value
Put(object, key, value) ==
    [k \in DOMAIN object \cup {key} |-> IF k = key THEN value ELSE object[k]]
\* table[code], undefined when the table has no such code
Lookup(table, code) == IF code \in DOMAIN table THEN table[code] ELSE undefined
\* array[index] || fallback
GetOr(array, index, fallback) ==
    IF index \in DOMAIN array THEN array[index] ELSE fallback

(***************************************************************************)
(* ga4.js                                                                  *)
(***************************************************************************)
GA4_PRODUCT_FIELDS ==
    (<<"i", "d">> :> "item_id") @@ (<<"n", "m">> :> "item_name")
    @@ (<<"b", "r">> :> "item_brand") @@ (<<"c", "a">> :> "item_category")
    @@ (<<"c", "2">> :> "item_category2") @@ (<<"c", "3">> :> "item_category3")
    @@ (<<"c", "4">> :> "item_category4") @@ (<<"c", "5">> :> "item_category5")
    @@ (<<"v", "a">> :> "item_variant") @@ (<<"p", "r">> :> "price")
    @@ (<<"q", "t">> :> "quantity") @@ (<<"c", "p">> :> "coupon")
    @@ (<<"l", "n">> :> "item_list_name") @@ (<<"l", "i">> :> "item_list_id")
    @@ (<<"l", "p">> :> "index") @@ (<<"d", "s">> :> "discount")
    @@ (<<"a", "f">> :> "affiliation") @@ (<<"p", "i">> :> "promotion_id")
    @@ (<<"p", "n">> :> "promotion_name") @@ (<<"c", "n">> :> "creative_name")
    @@ (<<"c", "s">> :> "creative_slot") @@ (<<"l", "o">> :> "Location ID")

\* string.substring(from, to), 0-based, clamped to the string as JavaScript does
Substring(string, from, to) ==
    LET end == IF to < Len(string) THEN to ELSE Len(string)
    IN  [k \in 1..(end - from) |-> string[from + k]]

\* string.split("~")
RECURSIVE Split(_)
Split(string) ==
    IF \A k \in DOMAIN string : string[k] # "~" THEN <<string>>
    ELSE LET k == CHOOSE j \in DOMAIN string :
                     string[j] = "~" /\ \A m \in 1..(j - 1) : string[m] # "~"
         IN  <<Substring(string, 0, k - 1)>>
             \o Split(Substring(string, k, Len(string)))

\* productParts[n] for a 0-based n, undefined (here: the empty string, which is
\* as falsy) past the end
PartAt(productParts, n) ==
    IF n < Len(productParts) THEN productParts[n + 1] ELSE <<>>

\* lines 85-86: what one round of the while loop appends to productPart
EscapedTailDropped(productParts, n) == <<"~">>

EscapedTail(productParts, n) ==
    <<"~">> \o (IF PartAt(productParts, n + 2) # <<>>
                THEN PartAt(productParts, n + 2) ELSE <<>>)

\* lines 84-88: the while loop; yields the loop variable and the part
RECURSIVE Rejoin(_, _, _)
Rejoin(productParts, n, productPart) ==
    IF n + 1 < Len(productParts) /\ PartAt(productParts, n + 1) = <<>>
    THEN Rejoin(productParts, n + 2, productPart \o EscapedTail(productParts, n))
    ELSE [i |-> n, productPart |-> productPart]

\* lines 82-91: the for loop over the parts, from part n on
RECURSIVE ParseParts(_, _, _)
ParseParts(productParts, n, product) ==
    IF n >= Len(productParts) THEN product
    ELSE LET r == Rejoin(productParts, n, PartAt(productParts, n))
             code == Substring(r.productPart, 0, 2)
             value == Substring(r.productPart, 2, Len(r.productPart))
         IN  ParseParts(productParts, r.i + 1,
                        Put(product, Lookup(GA4_PRODUCT_FIELDS, code), value))

\* lines 76-94: every &pr<N>=<payload> of the hit, in order
RECURSIVE Ga4Products(_, _, _)
Ga4Products(hit, k, products) ==
    IF k > Len(hit) THEN products
    ELSE IF hit[k].re # "pr" THEN Ga4Products(hit, k + 1, products)
    ELSE Ga4Products(hit, k + 1,
             Put(products, hit[k].index,
                 ParseParts(Split(hit[k].value), 0, EmptyObject)))

\* lines 95-101: every &ep.<name>=<value> and &epn.<name>=<value>
RECURSIVE Ga4EventParams(_, _, _)
Ga4EventParams(hit, k, params) ==
    IF k > Len(hit) THEN params
    ELSE IF hit[k].re # "ep" THEN Ga4EventParams(hit, k + 1, params)
    ELSE Ga4EventParams(hit, k + 1, Put(params, hit[k].code, hit[k].value))

\* lines 103-106: the first &en=<value>
Ga4EventName(hit, parsed) ==
    LET names == {k \in DOMAIN hit : hit[k].re = "en"}
    IN  IF names = {} THEN parsed
        ELSE Put(parsed, "event",
                 hit[CHOOSE k \in names : \A m \in names : k <= m].value)

\* ga4.js parse(url), lines 72-108
Ga4Parse(hit) ==
    Ga4EventName(hit,
        [products |-> Ga4Products(hit, 1, EmptyObject),
         params |-> Ga4EventParams(hit, 1, EmptyObject)])

\* ---- hits the GA4 tag sends: one product block, at index 1 alone or at index
\* 2 with event names and an event parameter ----
ValueChars == {"a", "~"}
\* three codes of the table and one it lacks; a product lists its fields in
\* this order, each code at most once
SentCodes == <<<<"i", "d">>, <<"n", "m">>, <<"p", "r">>, <<"z", "z">>>>
SentValues == SeqsUpTo(ValueChars, MaxValLen)
SentProducts ==
    UNION {{[k \in DOMAIN c |-> [code |-> SentCodes[c[k]], value |-> v[k]]] :
               v \in [DOMAIN c -> SentValues]} :
           c \in {d \in SeqsUpTo(DOMAIN SentCodes, MaxFields) :
                     /\ d # <<>>
                     /\ \A m, n \in DOMAIN d : m < n => d[m] < d[n]}}

\* a literal ~ goes out as ~~
RECURSIVE Escape(_)
Escape(value) ==
    IF value = <<>> THEN <<>>
    ELSE (IF Head(value) = "~" THEN <<"~", "~">> ELSE <<Head(value)>>)
         \o Escape(Tail(value))

\* the fields, each its code and its escaped value, joined with ~
RECURSIVE Encode(_)
Encode(fields) ==
    IF fields = <<>> THEN <<>>
    ELSE fields[1].code \o Escape(fields[1].value)
         \o (IF Len(fields) > 1 THEN <<"~">> \o Encode(Tail(fields)) ELSE <<>>)

Token(re, index, index2, code, value) ==
    [re |-> re, index |-> index, index2 |-> index2, code |-> code, value |-> value]

Ga4Hit(fields, index, withEvent) ==
    <<Token("pr", index, 0, "", Encode(fields))>>
    \o (IF withEvent
        THEN <<Token("en", 0, 0, "", "purchase"), Token("ep", 0, 0, "currency", "USD"),
               Token("en", 0, 0, "", "refund")>>
        ELSE <<>>)

\* ga4.parse(url)
ParseGa4 ==
    /\ pc = "idle"
    /\ \E fields \in SentProducts, withEvent \in BOOLEAN :
          LET hit == Ga4Hit(fields, IF withEvent THEN 2 ELSE 1, withEvent)
          IN  /\ sent' = fields
              /\ url' = hit
              /\ parsedData' = Ga4Parse(hit)
    /\ pc' = "ga4.parsed"
    /\ UNCHANGED <<sessionVars, pageVars, i, schemaVars, commandVars>>


(***************************************************************************)
(* The UA / measurement protocol hit parser (src/unnamed/part_002).        *)
(* A hit is the sequence of its &-tokens; re names the one regular         *)
(* expression the token matches, the other fields are its capturing groups.*)
(***************************************************************************)
UA_PRODUCT_FIELDS ==
    [id |-> "item_id", nm |-> "item_name", br |-> "item_brand",
     ca |-> "item_category", va |-> "item_variant", qt |-> "quantity",
     pr |-> "price", cc |-> "coupon", ps |-> "index"]

UA_IMPRESSION_FIELDS ==
    [id |-> "item_id", nm |-> "item_name", br |-> "item_brand",
     ca |-> "item_category", va |-> "item_variant", ps |-> "index",
     pr |-> "price"]

UA_PROMOTION_FIELDS ==
    [id |-> "item_id", nm |-> "item_name", cr |-> "creative_name", ps |-> "index"]

UA_PARAMS ==
    [pa |-> "product_action", ti |-> "transaction_id", ta |-> "affiliation",
     tr |-> "value", tt |-> "tax", ts |-> "shipping", tcc |-> "coupon",
     pal |-> "item_list_name", cos |-> "checkout_step",
     col |-> "checkout_option", promoa |-> "promo_action", cu |-> "currency"]

\* lines 139-140 (and 187-188): one field stored into the indexed entry, which
\* is created when the index has none yet
StoreField(entries, index, table, code, value) ==
    Put(entries, index,
        Put(GetOr(entries, index, EmptyObject), Lookup(table, code), value))

\* lines 132-142: UA_PRODUCT_REGEX matches
RECURSIVE UaProducts(_, _, _)
UaProducts(hit, k, products) ==
    IF k > Len(hit) THEN products
    ELSE IF hit[k].re # "pr" THEN UaProducts(hit, k + 1, products)
    ELSE UaProducts(hit, k + 1,
             StoreField(products, hit[k].index, UA_PRODUCT_FIELDS,
                        hit[k].code, hit[k].value))

NewImpressionList == [impressions |-> EmptyObject]

\* lines 144-158: UA_LIST_NAME_REGEX matches
RECURSIVE UaListNames(_, _, _)
UaListNames(hit, k, impressions) ==
    IF k > Len(hit) THEN impressions
    ELSE IF hit[k].re # "il" THEN UaListNames(hit, k + 1, impressions)
    ELSE UaListNames(hit, k + 1,
             Put(impressions, hit[k].index,
                 Put(GetOr(impressions, hit[k].index, NewImpressionList),
                     "name", hit[k].value)))

\* lines 160-177: UA_IMPRESSION_REGEX matches
RECURSIVE UaImpressions(_, _, _)
UaImpressions(hit, k, impressions) ==
    IF k > Len(hit) THEN impressions
    ELSE IF hit[k].re # "ilpi" THEN UaImpressions(hit, k + 1, impressions)
    ELSE LET impressionList == GetOr(impressions, hit[k].index, NewImpressionList)
         IN  UaImpressions(hit, k + 1,
                 Put(impressions, hit[k].index,
                     Put(impressionList, "impressions",
                         StoreField(impressionList.impressions, hit[k].index2,
                                    UA_IMPRESSION_FIELDS, hit[k].code,
                                    hit[k].value))))

\* lines 179-190: UA_PROMO_REGEX matches
RECURSIVE UaPromos(_, _, _)
UaPromos(hit, k, promos) ==
    IF k > Len(hit) THEN promos
    ELSE IF hit[k].re # "promo" THEN UaPromos(hit, k + 1, promos)
    ELSE UaPromos(hit, k + 1,
             StoreField(promos, hit[k].index, UA_PROMOTION_FIELDS,
                        hit[k].code, hit[k].value))

\* lines 192-200: UA_PARAMS_REGEX matches; it matches only the twelve codes
RECURSIVE UaParams(_, _, _)
UaParams(hit, k, params) ==
    IF k > Len(hit) THEN params
    ELSE IF hit[k].re # "param" THEN UaParams(hit, k + 1, params)
    ELSE UaParams(hit, k + 1,
             Put(params, Lookup(UA_PARAMS, hit[k].code), hit[k].value))

\* parse(url), lines 127-202
UaParse(hit) ==
    [products |-> UaProducts(hit, 1, EmptyObject),
     impressions |-> UaImpressions(hit, 1, UaListNames(hit, 1, EmptyObject)),
     promos |-> UaPromos(hit, 1, EmptyObject),
     params |-> UaParams(hit, 1, EmptyObject)]

\* ---- the &-tokens UA hits are made of here ----
UaTokens ==
    {Token("pr", 1, 0, "id", "a"), Token("pr", 1, 0, "id", "b"),
     Token("pr", 1, 0, "nm", "b"), Token("pr", 1, 0, "xx", "a"),
     Token("pr", 1, 0, "yy", "b"), Token("pr", 2, 0, "id", "a"),
     Token("il", 1, 0, "nm", "L"),
     Token("ilpi", 1, 0, "id", "a"), Token("ilpi", 1, 0, "nm", "b"),
     Token("ilpi", 1, 1, "id", "a"), Token("ilpi", 2, 0, "xx", "a"),
     Token("promo", 1, 0, "id", "a"), Token("promo", 1, 0, "cr", "b"),
     Token("promo", 1, 0, "xx", "a"),
     Token("param", 0, 0, "pa", "a"), Token("param", 0, 0, "tr", "b")}

UaHits ==
    {h \in SeqsUpTo(UaTokens, MaxTokens) :
        \A m, n \in DOMAIN h : m # n => h[m] # h[n]}

\* the UA parser's parse(url)
ParseUa ==
    /\ pc = "idle"
    /\ \E hit \in UaHits :
          /\ url' = hit
          /\ parsedData' = UaParse(hit)
    /\ pc' = "ua.parsed"
    /\ UNCHANGED <<sessionVars, pageVars, i, sent, schemaVars, commandVars>>

NextDecode == ParseGa4 \/ ParseUa

SpecDecode == Init /\ [][NextDecode]_vars

(***************************************************************************)
(* Calls on the two parser modules, one after another, as the page's       *)
(* PerformanceObserver makes them for every request it sees.  The only     *)
(* state the modules keep between calls is the lastIndex of their RegExp   *)
(* objects.  A URL is its path and its &-tokens; positions in it count 0   *)
(* for its start, 1 for the end of the path and k + 1 for the end of the   *)
(* k-th token.                                                             *)
(***************************************************************************)
\* most calls made on the parser modules
MaxCalls == 3

NoToken == Token("none", 0, 0, "", "")
Url(path, hit) == [path |-> path, hit |-> hit]

\* the regular expression matches the token
MatchedBy(regex, token) ==
    CASE regex = "GA4_PRODUCT_REGEX" -> token.re = "pr" /\ token.code = ""
      [] regex = "GA4_PARAM_REGEX" -> token.re = "ep"
      [] regex = "GA4_EVENT_NAME_REGEX" -> token.re = "en"
      [] regex = "UA_PRODUCT_REGEX" -> token.re = "pr" /\ token.code # ""
      [] regex = "UA_LIST_NAME_REGEX" -> token.re = "il"
      [] regex = "UA_IMPRESSION_REGEX" -> token.re = "ilpi"
      [] regex = "UA_PROMO_REGEX" -> token.re = "promo"
      [] regex = "UA_PARAMS_REGEX" -> token.re = "param"
      [] OTHER -> FALSE

\* url.matchAll(regex): the matches of a clone of the regex that starts at the
\* regex's lastIndex; the regex itself is not written.  Yields the hit with
\* every token that is no match blanked.
MatchAll(u, regex, li) ==
    [k \in DOMAIN u.hit |->
        IF k >= li[regex] /\ MatchedBy(regex, u.hit[k]) THEN u.hit[k] ELSE NoToken]

\* the label a recognition regex looks for after the path, "" for none
EventLabel(regex) ==
    CASE regex = "UA_LEGACY_REGEX" -> "GTM"
      [] regex = "UA_GA4_REGEX" -> "GA4"
      [] OTHER -> ""
\* the tokens &el=<label> of the URL
LabelTokens(regex, u) ==
    {k \in DOMAIN u.hit : u.hit[k].re = "el" /\ u.hit[k].value = EventLabel(regex)}
\* the regex matches the URL when the search starts at position 0
Matches(regex, u) ==
    IF regex = "GA4_URL_REGEX" THEN u.path = "/g/collect?"
    ELSE u.path \in {"/g/collect?", "/collect?"} /\ LabelTokens(regex, u) # {}
\* where that match ends: .* is greedy, so at the last such token
MatchEnd(regex, u) ==
    IF regex = "GA4_URL_REGEX" THEN 1
    ELSE 1 + CHOOSE k \in LabelTokens(regex, u) :
                 \A m \in LabelTokens(regex, u) : m <= k

\* regex.test(url): a regex without the g flag searches from 0 and leaves its
\* lastIndex alone; one with it searches from lastIndex and moves it to the
\* end of the match, or to 0 when there is none
RegExpTest(regex, u, li) ==
    IF GlobalFlag(regex)
    THEN LET found == li[regex] = 0 /\ Matches(regex, u)
         IN  [result |-> found,
              lastIndex |-> [li EXCEPT ![regex] =
                                IF found THEN MatchEnd(regex, u) ELSE 0]]
    ELSE [result |-> Matches(regex, u), lastIndex |-> li]

\* ga4.js parse(url), lines 72-108, with the RegExp objects as they stand
Ga4ParseWith(u, li) ==
    Ga4EventName(MatchAll(u, "GA4_EVENT_NAME_REGEX", li),
        [products |-> Ga4Products(MatchAll(u, "GA4_PRODUCT_REGEX", li), 1, EmptyObject),
         params |-> Ga4EventParams(MatchAll(u, "GA4_PARAM_REGEX", li), 1, EmptyObject)])

\* the UA parser's parse(url), lines 127-202, likewise
UaParseWith(u, li) ==
    [products |-> UaProducts(MatchAll(u, "UA_PRODUCT_REGEX", li), 1, EmptyObject),
     impressions |->
        UaImpressions(MatchAll(u, "UA_IMPRESSION_REGEX", li), 1,
            UaListNames(MatchAll(u, "UA_LIST_NAME_REGEX", li), 1, EmptyObject)),
     promos |-> UaPromos(MatchAll(u, "UA_PROMO_REGEX", li), 1, EmptyObject),
     params |-> UaParams(MatchAll(u, "UA_PARAMS_REGEX", li), 1, EmptyObject)]

\* ---- the requests the page sees ----
SessionUrls ==
    <<Url("/g/collect?",
          Ga4Hit(<<[code |-> <<"i", "d">>, value |-> <<"a", "~">>]>>, 1, TRUE)),
      Url("/collect?",
          <<Token("pr", 1, 0, "id", "a"), Token("el", 0, 0, "", "GTM"),
            Token("param", 0, 0, "tr", "b")>>),
      Url("/collect?",
          <<Token("il", 1, 0, "nm", "L"), Token("el", 0, 0, "", "GA4"),
            Token("ilpi", 1, 1, "id", "a"), Token("promo", 1, 0, "cr", "b")>>),
      Url("/other?", <<Token("el", 0, 0, "", "GTM")>>)>>

\* history: the call just made, and the first result of every (function, URL)
Record(fn, n, result) ==
    /\ calls' = calls + 1
    /\ call' = [fn |-> fn, url |-> n, result |-> result,
                again |-> <<fn, n>> \in DOMAIN first]
    /\ first' = IF <<fn, n>> \in DOMAIN first THEN first
                ELSE Put(first, <<fn, n>>, result)
    /\ UNCHANGED <<pc, i, schemaVars, decodeVars, commandVars, pageVars>>

\* a recognition predicate: one regex.test(url)
Recognise(fn, regex) ==
    /\ calls < MaxCalls
    /\ \E n \in DOMAIN SessionUrls :
          LET t == RegExpTest(regex, SessionUrls[n], lastIndex)
          IN  /\ lastIndex' = t.lastIndex
              /\ Record(fn, n, t.result)

\* ga4.js isGa4Hit(url), lines 114-116
CallIsGa4Hit == Recognise("isGa4Hit", "GA4_URL_REGEX")
\* isUaLegacyHit(url), lines 209-211
CallIsUaLegacyHit == Recognise("isUaLegacyHit", "UA_LEGACY_REGEX")
\* isUaGa4Hit(url), lines 218-220
CallIsUaGa4Hit == Recognise("isUaGa4Hit", "UA_GA4_REGEX")

\* ga4.parse(url)
CallGa4Parse ==
    /\ calls < MaxCalls
    /\ \E n \in DOMAIN SessionUrls :
          Record("ga4.parse", n, Ga4ParseWith(SessionUrls[n], lastIndex))
    /\ UNCHANGED lastIndex

\* the UA parser's parse(url)
CallUaParse ==
    /\ calls < MaxCalls
    /\ \E n \in DOMAIN SessionUrls :
          Record("ua.parse", n, UaParseWith(SessionUrls[n], lastIndex))
    /\ UNCHANGED lastIndex

NextCalls ==
    CallIsGa4Hit \/ CallIsUaLegacyHit \/ CallIsUaGa4Hit \/ CallGa4Parse
    \/ CallUaParse

SpecCalls == Init /\ [][NextCalls]_vars

(***************************************************************************)
(* The gtag command builder (src/unnamed/part_003).  Objects it walks with *)
(* for-in are sequences of name/value pairs in insertion order; the text   *)
(* it builds is the sequence of its lines.                                 *)
(***************************************************************************)
Line(kind, name, value) == [line |-> kind, name |-> name, value |-> value]

\* products.length of a sparse array
ArrayLength(array) ==
    IF DOMAIN array = {} THEN 0
    ELSE 1 + CHOOSE n \in DOMAIN array : \A m \in DOMAIN array : m <= n

\* lines 39-43: the field lines of one product; for-in over undefined (an
\* index the array does not hold) runs no iteration
FieldLines(products, n) ==
    IF n \in DOMAIN products
    THEN [k \in DOMAIN products[n] |->
             Line("field", products[n][k].name, products[n][k].value)]
    ELSE <<>>

\* lines 37-44: the block appended for index n
ItemBlock(products, n) ==
    <<Line("open", "", "")>> \o FieldLines(products, n) \o <<Line("close", "", "")>>

\* lines 26-33
ParamLines(data) ==
    IF data.params.set
    THEN [k \in DOMAIN data.params.list |->
             Line("param", data.params.list[k].name, data.params.list[k].value)]
    ELSE <<>>

\* ---- records handed to the builder ----
Pair(name, value) == [name |-> name, value |-> value]
BuiltProducts == {<<>>, <<Pair("item_id", "X")>>}
BuiltParams ==
    {[set |-> FALSE, list |-> <<>>], [set |-> TRUE, list |-> <<>>],
     [set |-> TRUE, list |-> <<Pair("value", "9.99")>>]}
SparseArrays(indices, values) ==
    UNION {[d -> values] : d \in SUBSET indices}
HitData ==
    [event : {"purchase", undefined}, params : BuiltParams,
     products : SparseArrays(0..MaxIndex, BuiltProducts)]

\* buildGa4GtagCommand(parsedHitData): lines 25-36
BuildCall ==
    /\ pc = "idle"
    /\ \E data \in HitData :
          /\ parsedHitData' = data
          /\ eventParamsString' = ParamLines(data)
    /\ itemsString' = <<>>
    /\ i' = 1
    /\ pc' = "items"
    /\ UNCHANGED <<sessionVars, pageVars, command, schemaVars, decodeVars>>

\* one iteration of the loop of lines 36-45
BuildItem ==
    /\ pc = "items"
    /\ i < ArrayLength(parsedHitData.products)
    /\ itemsString' = itemsString \o ItemBlock(parsedHitData.products, i)
    /\ i' = i + 1
    /\ UNCHANGED <<sessionVars, pageVars, pc, parsedHitData, eventParamsString,
                   command, schemaVars, decodeVars>>

\* lines 47-52
BuildReturn ==
    /\ pc = "items"
    /\ i >= ArrayLength(parsedHitData.products)
    /\ command' = [event |-> parsedHitData.event,
                   params |-> eventParamsString,
                   hasItems |-> itemsString # <<>>,
                   items |-> itemsString]
    /\ pc' = "built"
    /\ UNCHANGED <<sessionVars, pageVars, i, parsedHitData, eventParamsString,
                   itemsString, schemaVars, decodeVars>>

NextCommand == BuildCall \/ BuildItem \/ BuildReturn

SpecCommand == Init /\ [][NextCommand]_vars

(***************************************************************************)
(* The page script (src/unnamed/part_001): the API selector, the two       *)
(* parameter text boxes, getParams and the Submit button.  A handler runs  *)
(* to its end before anything else does, and the promise reactions it      *)
(* queued run before the next event; what the handlers do to the page's    *)
(* elements and their alerts are left out.                                 *)
(***************************************************************************)
\* most clicks on Submit
MaxSubmits == 3

\* What a text box can hold, by how window['resolveParams'](<text>) goes:
\*   ""       the call has no argument: resolve(undefined)
\*   object   an object literal: resolve(object)
\*   error    the script does not compile or throws: window.onerror rejects
\*   later    the value is a thenable (a promise): the promise settles with
\*            its value once that settles, in a later task
Texts == {"", "{event: 'purchase'}", "{items: [}", "fetchParams()"}

\* lines 82-100: the promise getParams creates for a text; the inserted script
\* runs before the constructor returns
NewPromise(paramsString) ==
    CASE paramsString = "" ->
            [text |-> paramsString, state |-> "resolved", value |-> undefined,
             reactions |-> <<>>]
      [] paramsString = "{event: 'purchase'}" ->
            [text |-> paramsString, state |-> "resolved", value |-> paramsString,
             reactions |-> <<>>]
      [] paramsString = "{items: [}" ->
            [text |-> paramsString, state |-> "rejected", value |-> "Error parsing",
             reactions |-> <<>>]
      [] OTHER ->
            [text |-> paramsString, state |-> "pending", value |-> undefined,
             reactions |-> <<>>]

\* lines 62-64 and 70-79: the text of the selected API's box
ParamsString ==
    IF apiSelected = Api.GTAG THEN gtagText
    ELSE IF apiSelected = Api.DATA_LAYER THEN dlText
    ELSE ""

\* the script's module variables (lines 49-50) and the promises made so far
Module == [lastParamString |-> lastParamString, paramsPromise |-> paramsPromise,
           promises |-> promises]

\* getParams(), lines 69-105: the module variables after the call; what it
\* returns is their paramsPromise
GetParams(m) ==
    IF ParamsString # m.lastParamString
    THEN [lastParamString |-> ParamsString,
          paramsPromise |-> Len(m.promises) + 1,
          promises |-> Append(m.promises, NewPromise(ParamsString))]
    ELSE m

Job(handler, promise, submit) ==
    [handler |-> handler, promise |-> promise, submit |-> submit]

\* promise.then(handler): a reaction of a settled promise is queued at once,
\* one of a pending promise waits for it to settle.  Yields the promises and
\* the job queue.
Then(all, queue, job) ==
    IF all[job.promise].state = "pending"
    THEN [promises |-> [all EXCEPT ![job.promise].reactions = Append(@, job)],
          jobs |-> queue]
    ELSE [promises |-> all, jobs |-> Append(queue, job)]

\* line 155
ResetRecord(submit) == [kind |-> "reset", submit |-> submit, value |-> "null"]
\* lines 159 and 168: the event / parameter object a submit pushes
ParamsRecord(submit, value) == [kind |-> "params", submit |-> submit, value |-> value]


\* the user picks the other API (lines 26 and 63)
ChangeApi ==
    /\ jobs = <<>>
    /\ apiSelected' = IF apiSelected = Api.GTAG THEN Api.DATA_LAYER ELSE Api.GTAG
    /\ UNCHANGED <<gtagText, dlText, lastParamString, paramsPromise, promises,
                   jobs, dataLayer, log>>
    /\ UNCHANGED <<pc, i, schemaVars, decodeVars, commandVars, sessionVars>>

\* the user edits the gtag parameters (line 28)
EditGtagParams ==
    /\ jobs = <<>>
    /\ \E text \in Texts \ {gtagText} : gtagText' = text
    /\ UNCHANGED <<apiSelected, dlText, lastParamString, paramsPromise, promises,
                   jobs, dataLayer, log>>
    /\ UNCHANGED <<pc, i, schemaVars, decodeVars, commandVars, sessionVars>>

\* the user edits the data layer parameters (line 29)
EditDataLayerParams ==
    /\ jobs = <<>>
    /\ \E text \in Texts \ {dlText} : dlText' = text
    /\ UNCHANGED <<apiSelected, gtagText, lastParamString, paramsPromise,
                   promises, jobs, dataLayer, log>>
    /\ UNCHANGED <<pc, i, schemaVars, decodeVars, commandVars, sessionVars>>

\* onSubmit(event), lines 143-174, up to its return.  updateSchemaId (line
\* 152) calls getParams().then: when getParams returns undefined that throws
\* a TypeError and the handler ends there.
Submit ==
    /\ jobs = <<>>
    /\ Len(log) < MaxSubmits
    /\ LET submit == Len(log) + 1
           m1 == GetParams(Module)
           m2 == GetParams(m1)
       IN  IF m1.paramsPromise = NoPromise
           THEN /\ log' = Append(log, [returned |-> <<NoPromise>>, threw |-> TRUE])
                /\ lastParamString' = m1.lastParamString
                /\ paramsPromise' = m1.paramsPromise
                /\ UNCHANGED <<promises, jobs, dataLayer>>
           ELSE LET t1 == Then(m2.promises, jobs,
                               Job("updateSchemaId.then", m1.paramsPromise, submit))
                    t2 == Then(t1.promises, t1.jobs,
                               Job("onSubmit.then", m2.paramsPromise, submit))
                IN  /\ log' = Append(log, [returned |-> <<m1.paramsPromise,
                                                         m2.paramsPromise>>,
                                           threw |-> FALSE])
                    /\ lastParamString' = m2.lastParamString
                    /\ paramsPromise' = m2.paramsPromise
                    /\ promises' = t2.promises
                    /\ jobs' = t2.jobs
                    /\ dataLayer' = Append(dataLayer, ResetRecord(submit))
    /\ UNCHANGED <<apiSelected, gtagText, dlText>>
    /\ UNCHANGED <<pc, i, schemaVars, decodeVars, commandVars, sessionVars>>

\* the thenable a promise was resolved with settles: the promise is fulfilled
\* and its reactions are queued in the order they were added
Settle ==
    /\ jobs = <<>>
    /\ \E n \in DOMAIN promises :
          /\ promises[n].state = "pending"
          /\ promises' = [promises EXCEPT ![n] =
                             [text |-> @.text, state |-> "resolved",
                              value |-> "{event: 'purchase'}", reactions |-> <<>>]]
          /\ jobs' = promises[n].reactions
    /\ UNCHANGED <<apiSelected, gtagText, dlText, lastParamString, paramsPromise,
                   dataLayer, log>>
    /\ UNCHANGED <<pc, i, schemaVars, decodeVars, commandVars, sessionVars>>

\* the reaction at the head of the queue runs:
\*   lines 130-137 (updateSchemaId's callback) change elements only;
\*   lines 156-170 push the parameters; a rejected promise, or the TypeError
\*   of line 162 on undefined parameters, goes on to the catch of line 171;
\*   lines 171-173 alert.
RunJob ==
    /\ jobs # <<>>
    /\ LET job == Head(jobs)
           promise == promises[job.promise]
       IN  IF job.handler = "onSubmit.then"
           THEN IF promise.state = "rejected"
                   \/ (apiSelected = Api.DATA_LAYER /\ promise.value = undefined)
                THEN /\ jobs' = Append(Tail(jobs),
                                       Job("onSubmit.catch", job.promise, job.submit))
                     /\ UNCHANGED dataLayer
                ELSE /\ jobs' = Tail(jobs)
                     /\ dataLayer' = Append(dataLayer,
                                            ParamsRecord(job.submit, promise.value))
           ELSE /\ jobs' = Tail(jobs)
                /\ UNCHANGED dataLayer
    /\ UNCHANGED <<apiSelected, gtagText, dlText, lastParamString, paramsPromise,
                   promises, log>>
    /\ UNCHANGED <<pc, i, schemaVars, decodeVars, commandVars, sessionVars>>

NextPage ==
    ChangeApi \/ EditGtagParams \/ EditDataLayerParams \/ Submit \/ Settle
    \/ RunJob

SpecPage == Init /\ [][NextPage]_vars

(***************************************************************************)
(* Claims about the command builder, checked under SpecCommand.            *)
(***************************************************************************)
\* the populated product indices the claim renders, and their number
Rendered == {n \in DOMAIN parsedHitData.products : n >= 1}
\* the item blocks of the output, one per opening line
Blocks == {k \in DOMAIN command.items : command.items[k].line = "open"}
\* the blocks of the populated indices from n on, in ascending order
RECURSIVE BlocksFrom(_)
BlocksFrom(n) ==
    IF n > MaxIndex + 1 THEN <<>>
    ELSE (IF n \in Rendered THEN ItemBlock(parsedHitData.products, n) ELSE <<>>)
         \o BlocksFrom(n + 1)

\* C10: the command holds exactly one item block per populated product index
\* >= 1, in ascending index order; index 0 and absent indices give no block.
C10_OneBlockPerProduct ==
    pc = "built" =>
        /\ Cardinality(Blocks) = Cardinality(Rendered)
        /\ command.items = BlocksFrom(1)

(***************************************************************************)
(* Claims about the hit parsers, checked under SpecDecode.                 *)
(***************************************************************************)
Range(f) == {f[k] : k \in DOMAIN f}
\* the product block the GA4 parser decoded from the hit
DecodedProduct == parsedData.products[url[1].index]
\* the canonical name of a sent field whose code is known
Ga4Name(field) == GA4_PRODUCT_FIELDS[field.code]

\* C7: a product with known field codes whose values hold literal ~ anywhere,
\* encoded with ~~ for ~ and ~ between fields, decodes to a Product with the
\* original value of every field, and no other key.
C7_TildeRoundTrip ==
    (pc = "ga4.parsed" /\ \A n \in DOMAIN sent : sent[n].code \in DOMAIN GA4_PRODUCT_FIELDS)
    => /\ \A n \in DOMAIN sent :
             /\ Ga4Name(sent[n]) \in DOMAIN DecodedProduct
             /\ DecodedProduct[Ga4Name(sent[n])] = sent[n].value
       /\ DOMAIN DecodedProduct = {Ga4Name(sent[n]) : n \in DOMAIN sent}
\* a trailing ~ in a field that is not the last, consecutive ~ in the last
C7_Witness ==
    /\ pc = "ga4.parsed"
    /\ Len(sent) = 2
    /\ sent[1].code = <<"i", "d">> /\ sent[1].value = <<"a", "~">>
    /\ sent[2].code = <<"n", "m">> /\ sent[2].value = <<"~", "~">>
    /\ DecodedProduct = [item_id |-> <<"a", "~">>, item_name |-> <<"~", "~">>]

\* every key of every entry of a sparse array is one of the table's names
CanonicalKeys(entries, table) ==
    \A n \in DOMAIN entries : DOMAIN entries[n] \subseteq Range(table)

\* C8: a field whose code the table lacks adds no key: every key of every
\* decoded Product, impression and promotion is a canonical name of its table.
C8_UnknownCodeNoOp ==
    /\ pc = "ga4.parsed" => CanonicalKeys(parsedData.products, GA4_PRODUCT_FIELDS)
    /\ pc = "ua.parsed" =>
          /\ CanonicalKeys(parsedData.products, UA_PRODUCT_FIELDS)
          /\ \A n \in DOMAIN parsedData.impressions :
                CanonicalKeys(parsedData.impressions[n].impressions,
                              UA_IMPRESSION_FIELDS)
          /\ CanonicalKeys(parsedData.promos, UA_PROMOTION_FIELDS)

\* each (collection, index, field code) occurs at most once in the hit
TokenKey(t) == <<t.re, t.index, t.index2, t.code>>
OncePerField(hit) ==
    \A m, n \in DOMAIN hit : m # n => TokenKey(hit[m]) # TokenKey(hit[n])
Permuted(hit, q) == [k \in DOMAIN hit |-> hit[q[k]]]
\* the decoded record holds what the token carries
Kept(t, parsed) ==
    CASE t.re = "pr" ->
            t.code \in DOMAIN UA_PRODUCT_FIELDS =>
               /\ t.index \in DOMAIN parsed.products
               /\ UA_PRODUCT_FIELDS[t.code] \in DOMAIN parsed.products[t.index]
               /\ parsed.products[t.index][UA_PRODUCT_FIELDS[t.code]] = t.value
      [] t.re = "il" ->
            /\ t.index \in DOMAIN parsed.impressions
            /\ "name" \in DOMAIN parsed.impressions[t.index]
            /\ parsed.impressions[t.index].name = t.value
      [] t.re = "ilpi" ->
            t.code \in DOMAIN UA_IMPRESSION_FIELDS =>
               /\ t.index \in DOMAIN parsed.impressions
               /\ t.index2 \in DOMAIN parsed.impressions[t.index].impressions
               /\ LET imp == parsed.impressions[t.index].impressions[t.index2]
                  IN  /\ UA_IMPRESSION_FIELDS[t.code] \in DOMAIN imp
                      /\ imp[UA_IMPRESSION_FIELDS[t.code]] = t.value
      [] t.re = "promo" ->
            t.code \in DOMAIN UA_PROMOTION_FIELDS =>
               /\ t.index \in DOMAIN parsed.promos
               /\ UA_PROMOTION_FIELDS[t.code] \in DOMAIN parsed.promos[t.index]
               /\ parsed.promos[t.index][UA_PROMOTION_FIELDS[t.code]] = t.value
      [] OTHER -> TRUE

\* C9: a UA hit in which each (collection, index, field code) occurs at most
\* once decodes to the same record under every permutation of its tokens, and
\* the record keeps every decoded field and list name of every entry.
C9_OrderIndependentMerge ==
    (pc = "ua.parsed" /\ OncePerField(url))
    => /\ \A q \in Permutations(DOMAIN url) : UaParse(Permuted(url, q)) = parsedData
       /\ \A n \in DOMAIN url : Kept(url[n], parsedData)


(***************************************************************************)
(* Claims about the classifier, checked under SpecSchema.                  *)
(***************************************************************************)
GtagCall == api = Api.GTAG
DataLayerCall == api = Api.DATA_LAYER
\* the items argument of a gtag call is a non-empty list
ItemsList == paramsObject.items.kind = "array" /\ Len(paramsObject.items.elems) > 0
Entries == paramsObject.items.elems
\* the entry matches neither the unified nor the legacy rule
Unclassified(item) == item \cap (UnifiedKeys \cup LegacyKeys) = {}
\* the entry counts as legacy (a legacy marker decides, whatever else it has)
\* or as unified (a unified marker and no legacy one)
LegacyEntry(item) == item \cap LegacyKeys # {}
UnifiedEntry(item) == item \cap UnifiedKeys # {} /\ item \cap LegacyKeys = {}
AllClassified == \A n \in DOMAIN Entries : ~Unclassified(Entries[n])
\* two of the first k entries are classified differently
Disagree(k) ==
    \E m, n \in 1..k : UnifiedEntry(Entries[m]) /\ LegacyEntry(Entries[n])

\* C1: identifySchema is total: every call, for either API and any parameter
\* object, returns one of the six labels and never throws.
C1_IdentifySchemaTotal ==
    /\ pc # "thrown"
    /\ pc = "returned" => schema \in Labels

\* C2: gtag with a non-empty items list: an entry that matches neither rule,
\* at any position, makes the result gtag-unknown.
C2_UnclassifiedEntryDegrades ==
    (pc = "returned" /\ GtagCall /\ ItemsList
        /\ \E n \in DOMAIN Entries : Unclassified(Entries[n]))
    => schema = KnownSchema.UNKNOWN_GTAG

\* The state part of C3: gtag with a non-empty items list whose entries are all
\* classified: the result is ga4-gtag when all are unified, ua-gtag when all
\* are legacy and gtag-unknown as soon as two disagree.
C3_Result ==
    (GtagCall /\ ItemsList /\ AllClassified) =>
        /\ pc = "returned" =>
              schema = IF \A n \in DOMAIN Entries : UnifiedEntry(Entries[n])
                       THEN KnownSchema.UNIFIED
                       ELSE IF \A n \in DOMAIN Entries : LegacyEntry(Entries[n])
                       THEN KnownSchema.GTAG_UA
                       ELSE KnownSchema.UNKNOWN_GTAG
        /\ (pc = "loop" /\ Disagree(i)) => currentSchema = KnownSchema.UNKNOWN_GTAG
\* The step part of C3: a running result of gtag-unknown is never changed back
\* by a later entry, and is what the call returns.
C3_Sticky ==
    (pc = "loop" /\ currentSchema = KnownSchema.UNKNOWN_GTAG) =>
        /\ currentSchema' = KnownSchema.UNKNOWN_GTAG
        /\ pc' = "returned" => schema' = KnownSchema.UNKNOWN_GTAG
\* C3 (both parts): the result of a list of classified entries, at the return
\* and at every step of the loop, and the persistence of gtag-unknown.
C3_AgreeingFold == []C3_Result /\ [][C3_Sticky]_vars
\* a list that degrades at its second entry and goes on with an entry like the first
C3_Witness ==
    /\ pc = "returned" /\ GtagCall /\ ItemsList /\ AllClassified
    /\ Len(Entries) = 3
    /\ UnifiedEntry(Entries[1]) /\ LegacyEntry(Entries[2]) /\ UnifiedEntry(Entries[3])
    /\ schema = KnownSchema.UNKNOWN_GTAG

Ecommerce == paramsObject.ecommerce
HasEcommerce == DataLayerCall /\ Ecommerce.kind = "object"
StrongMarkers == {"items", "transaction_id", "value"}

\* C4: dataLayer: an ecommerce object with items, transaction_id or value is
\* ga4-gtm, whatever action sub-objects, classic markers and impressions it has.
C4_StrongMarkersFirst ==
    (pc = "returned" /\ HasEcommerce /\ Ecommerce.keys \cap StrongMarkers # {})
    => schema = KnownSchema.GTM_LEGACY_GA4
\* a strong marker beside an action object with a classic marker and impressions
C4_Witness ==
    /\ pc = "returned" /\ HasEcommerce
    /\ "value" \in Ecommerce.keys /\ "impressions" \in Ecommerce.keys
    /\ \E a \in ActionNameSet : <<a, "products">> \in Ecommerce.marks
    /\ schema = KnownSchema.GTM_LEGACY_GA4

\* the first action sub-object of the fixed order that the object has
FirstAction(e) ==
    LET present == {n \in DOMAIN ActionNames : ActionNames[n] \in e.keys}
    IN  ActionNames[CHOOSE n \in present : \A m \in present : n <= m]
ClassicKeys == {"actionField", "products", "promotions"}
ImpressionsSchema(e) ==
    IF "impressions" \in e.keys THEN KnownSchema.GTM_UA ELSE KnownSchema.UNKNOWN

\* C5: dataLayer, ecommerce without items, transaction_id, value: only the
\* first present action sub-object of the fixed order counts: a classic marker
\* on it gives ua-gtm, else items on it gives ga4-gtm, else (or without any
\* action sub-object) impressions gives ua-gtm and nothing gives unknown.
C5_FirstActionDecides ==
    (pc = "returned" /\ HasEcommerce /\ Ecommerce.keys \cap StrongMarkers = {})
    => schema =
         IF Ecommerce.keys \cap ActionNameSet = {} THEN ImpressionsSchema(Ecommerce)
         ELSE LET a == FirstAction(Ecommerce)
              IN  IF \E k \in ClassicKeys : <<a, k>> \in Ecommerce.marks
                  THEN KnownSchema.GTM_UA
                  ELSE IF <<a, "items">> \in Ecommerce.marks
                  THEN KnownSchema.GTM_LEGACY_GA4
                  ELSE ImpressionsSchema(Ecommerce)
\* the first action has only items, a later one has a classic marker
C5_Witness ==
    /\ pc = "returned" /\ HasEcommerce
    /\ Ecommerce.keys = {"add", "purchase"}
    /\ Ecommerce.marks = {<<"add", "items">>, <<"purchase", "products">>}
    /\ schema = KnownSchema.GTM_LEGACY_GA4

\* C6: gtag: with none of items, transaction_id, value, currency the result is
\* unknown; with items present but not a non-empty list it is gtag-unknown,
\* whatever the other markers.
C6_GtagGuard ==
    (GtagCall /\ pc # "idle") =>
        /\ ~(Truthy(paramsObject.items) \/ paramsObject.transaction_id
               \/ paramsObject.value \/ paramsObject.currency)
           => (pc = "returned" /\ schema = KnownSchema.UNKNOWN)
        /\ (Truthy(paramsObject.items) /\ ~ItemsList)
           => (pc = "returned" /\ schema = KnownSchema.UNKNOWN_GTAG)
\* a non-list items value beside other markers
C6_Witness ==
    /\ pc = "returned" /\ GtagCall
    /\ paramsObject.items.kind = "string" /\ paramsObject.transaction_id
    /\ schema = KnownSchema.UNKNOWN_GTAG

(***************************************************************************)
(* Claims about repeated calls on the parser modules, checked under        *)
(* SpecCalls.                                                              *)
(***************************************************************************)
Called == call # NoParams

\* C11: decoding is deterministic and leaves no hidden state: after any
\* sequence of earlier recognition and parse calls on the same or other URLs,
\* a parse returns a record equal to the first one for that URL, a recognition
\* predicate returns the same boolean as on its first call, and no RegExp
\* object of the modules has moved.
C11_NoHiddenState ==
    /\ lastIndex = FreshLastIndex
    /\ Called => call.result = first[<<call.fn, call.url>>]
\* a GA4 hit is parsed again after a recognition call on it came between
C11_Witness ==
    /\ Called /\ call.again /\ calls >= 3
    /\ call.fn = "ga4.parse" /\ call.url = 1
    /\ <<"isGa4Hit", 1>> \in DOMAIN first
    /\ first[<<"isGa4Hit", 1>>] = TRUE
    /\ call.result.products[1] = [item_id |-> <<"a", "~">>]
    /\ call.result.event = "purchase"

(***************************************************************************)
(* Claims about the page script, checked under SpecPage.                   *)
(***************************************************************************)
\* C12: every call to getParams returns a promise: the first call after load
\* too, for either API and any text (an empty text box included), and every
\* later call, with the text changed or not.
C12_GetParamsReturnsPromise ==
    \A n \in DOMAIN log :
        \A k \in DOMAIN log[n].returned : log[n].returned[k] # NoPromise

\* the positions of the data layer that hold a submit's parameters
ParamsPushes == {k \in DOMAIN dataLayer : dataLayer[k].kind = "params"}
\* the submit's own reset record precedes its parameters
ResetFirst ==
    \A k \in ParamsPushes :
        \E j \in 1..(k - 1) : dataLayer[j] = ResetRecord(dataLayer[k].submit)
\* a reset record lies between the parameters of any two submits
ResetBetween ==
    \A j, k \in ParamsPushes :
        (j < k /\ dataLayer[j].submit # dataLayer[k].submit)
        => \E r \in (j + 1)..(k - 1) : dataLayer[r].kind = "reset"
\* the parameter evaluation of the submit was rejected
Rejected(n) ==
    /\ ~log[n].threw
    /\ promises[log[n].returned[2]].state = "rejected"
\* a submit whose evaluation was rejected pushed no parameters
NoPushOnReject ==
    \A n \in DOMAIN log :
        Rejected(n) => \A k \in ParamsPushes : dataLayer[k].submit # n

\* C13: for every submit, in any sequence of submits with any parameter text:
\* {ecommerce: null} is pushed before that submit's parameters, so that a
\* reset lies between the parameters of any two submits; and a submit whose
\* parameter evaluation is rejected pushes no parameter object.
C13_ResetBeforeParams == ResetFirst /\ ResetBetween /\ NoPushOnReject

(***************************************************************************)
(* A further claim about the classifier, checked under SpecSchema.         *)
(***************************************************************************)
\* the entry carries both a unified and a legacy marker
DualEntry(item) == item \cap UnifiedKeys # {} /\ item \cap LegacyKeys # {}
HasDualEntry == \E n \in DOMAIN Entries : DualEntry(Entries[n])

\* C14: gtag: an items entry with both a unified and a legacy marker is
\* classified as legacy: a list of such entries only gives ua-gtag; beside a
\* purely unified entry it gives gtag-unknown, beside purely legacy entries
\* ua-gtag.
C14_DualMarkerIsLegacy ==
    (pc = "returned" /\ GtagCall /\ ItemsList /\ AllClassified /\ HasDualEntry)
    => /\ \A n \in DOMAIN Entries :
             DualEntry(Entries[n]) => ThisItemSchema(Entries[n]) = KnownSchema.GTAG_UA
       /\ schema = IF \E n \in DOMAIN Entries : UnifiedEntry(Entries[n])
                   THEN KnownSchema.UNKNOWN_GTAG
                   ELSE KnownSchema.GTAG_UA
\* two entries with both markers around a purely legacy one
C14_Witness ==
    /\ pc = "returned" /\ GtagCall /\ ItemsList
    /\ Entries = <<{"item_id", "id"}, {"id"}, {"creative_name", "name"}>>
    /\ schema = KnownSchema.GTAG_UA

====
